---- MODULE Spec2Model ----
(***************************************************************************)
(* A model of the filesets tool (src/main.py, src/misc.py): the sync pass  *)
(* over the configured real-root => virtual-root mappings, the persisted   *)
(* fileset data file (.fsd) and the ways a run can end (completed,         *)
(* interrupted inside the try block, interrupted outside it, or killed by  *)
(* an uncaught exception); the read-only commands status and check over    *)
(* the data file and the filesystem; and diff over two data files.         *)
(*                                                                         *)
(* Spec is the tool in a changing environment, SpecResume is sync resumed  *)
(* over an unchanging filesystem from a data file earlier passes left,     *)
(* SpecDiff is diff over a bounded set of pairs of data files.             *)
(***************************************************************************)
EXTENDS Integers, Sequences, FiniteSets, TLC

(***************************************************************************)
(* Bounds of the model.                                                    *)
(***************************************************************************)
MaxRuns == 2
MaxEnvChanges == 1

(***************************************************************************)
(* The universe: real roots, the files that may exist below them, the      *)
(* contents a file may have and the modification times it may carry.       *)
(***************************************************************************)

RealFiles == {<<"a", "x">>, <<"a", "y">>, <<"c", "x">>}

Absent == [content |-> "none", mtime |-> -1]

\* The sentinel sort key of a virtual path without a record
\* ('1900-01-01T00:00:00'): earlier than every timestamp of the clock.
Sentinel == 0

\* A file version: its bytes (an abstract content id) and its mtime, counted
\* in half microseconds (os.path.getmtime returns a float finer than the
\* six decimals the tool stores).
Versions ==
    { [content |-> "hello",  mtime |-> 3],
      [content |-> "jello",  mtime |-> 4],
      [content |-> "hello",  mtime |-> 5],
      [content |-> "hello!", mtime |-> 3] }

\* The versions each file of the universe takes: every one for a/x, two of
\* them for c/x (with the same size and mtime text as the first of a/x, and
\* the same or another content), one for a/y.
VersionsOf(rf) ==
    IF rf = <<"a", "x">> THEN Versions
    ELSE IF rf = <<"c", "x">>
         THEN { [content |-> "hello", mtime |-> 3], [content |-> "jello", mtime |-> 4] }
         ELSE { [content |-> "hello", mtime |-> 3] }

\* os.path.getsize: the byte length of the content.
getsize(v) ==
    CASE v.content = "hello"  -> 5
      [] v.content = "jello"  -> 5
      [] v.content = "hello!" -> 6

\* os.path.getmtime
getmtime(v) == v.mtime

\* f"{mtime:.6f}": the mtime rounded to whole microseconds (two half
\* microseconds), as the decimal text the record stores.
FormatMtime(m) == (m + 1) \div 2

\* mmh3.hash128 of the file's bytes, formatted as 32 hex digits.
hash128(content) ==
    CASE content = "hello"  -> "h-hello"
      [] content = "jello"  -> "h-jello"
      [] content = "hello!" -> "h-hello!"

\* The configurations (algo, paths) load_config may return: the ordered
\* real root => virtual root mappings.  Two roots may share a virtual root,
\* and the name of one virtual root may begin with the name of another.
Configs ==
    { << [real |-> "a", virt |-> <<"v">>] >>,
      << [real |-> "a", virt |-> <<"v">>], [real |-> "c", virt |-> <<"v">>] >>,
      << [real |-> "a", virt |-> <<"v">>], [real |-> "c", virt |-> <<"v2">>] >> }

Algos == {"murmur128", "sha256"}

VARIABLES
    algo,           \* the configured algorithm name
    paths,          \* the configured mappings, in configuration order
    fs,             \* the filesystem: real file -> version or Absent
    disk,           \* the persisted .fsd file: intact with a manifest, or truncated
    clock,          \* the wall clock datetime.now() reads
    pc,             \* position of the running process ("idle": none running)
    full,           \* sync's full argument
    data,           \* sync's in-memory dict: virtual path -> record
    loaded,         \* the manifest load_fileset_data returned to this run
    all_files,      \* sync's candidate list
    idx,            \* index of the next candidate of the loop (1-based)
    files_found, files_added, files_deleted, files_existed, files_changed,
    aborted,        \* sync's aborted flag
    outcome,        \* how the last run ended ("none" once the environment changed)
    prev,           \* outcome and mode of the run before this one
    envChanges,     \* number of changes the environment made (files, configuration)
    runs,           \* number of runs started
    report,         \* what the last status, check or diff command printed
    other           \* the second .fsd file diff is given

vars == << algo, paths, fs, disk, clock, pc, full, data, loaded, all_files, idx,
           files_found, files_added, files_deleted, files_existed, files_changed,
           aborted, outcome, prev, envChanges, runs, report, other >>

counters == << files_found, files_added, files_deleted, files_existed, files_changed >>
process == << full, data, loaded, all_files, idx, counters, aborted >>


(***************************************************************************)
(* Pure helpers of sync.                                                   *)
(***************************************************************************)
\* All orders in which a directory walk may list the members of S.
Orders(S) ==
    { s \in [1..Cardinality(S) -> S] : \A i, j \in 1..Cardinality(S) : s[i] = s[j] => i = j }

\* os.walk(real_path) for one mapping: the files present under the real root,
\* in some directory order, each with its virtual path
\* (Path(virtual_path) / filepath.relative_to(real_path)).
WalkMapping(m, f) ==
    LET present == { rf \in RealFiles : rf[1] = m.real /\ f[rf] # Absent }
    IN  { [i \in 1..Cardinality(present) |-> [real |-> o[i], virt |-> m.virt \o << o[i][2] >>]]
          : o \in Orders(present) }

\* The candidate lists the enumeration loop can build: the walks of the
\* mappings, concatenated in configuration order.
RECURSIVE EnumerateFrom(_, _, _)
EnumerateFrom(i, p, f) ==
    IF i > Len(p) THEN { << >> }
    ELSE { w \o rest : w \in WalkMapping(p[i], f), rest \in EnumerateFrom(i + 1, p, f) }

Enumerate(p, f) == EnumerateFrom(1, p, f)

\* The sort key of a candidate: the checked stamp of its record, or the
\* sentinel when the virtual path has no record.
SortKey(c, d) == IF c.virt \in DOMAIN d THEN d[c.virt].checked ELSE Sentinel

\* Mutant of InsertByKey: the sort is not stable (a candidate goes before the
\* candidates of equal key that precede it in the enumeration).
RECURSIVE InsertByKey_Unstable(_, _, _)
InsertByKey_Unstable(c, s, d) ==
    IF s = << >> THEN << c >>
    ELSE IF SortKey(c, d) <= SortKey(Head(s), d) THEN << c >> \o s
    ELSE << Head(s) >> \o InsertByKey_Unstable(c, Tail(s), d)

\* sorted(all_files, key=...): Python's sort is stable.
RECURSIVE InsertByKey(_, _, _)
InsertByKey(c, s, d) ==
    IF s = << >> THEN << c >>
    ELSE IF SortKey(c, d) < SortKey(Head(s), d) THEN << c >> \o s
    ELSE << Head(s) >> \o InsertByKey(c, Tail(s), d)

\* Mutant of SortByChecked: the candidates stay in enumeration order.
SortByChecked_Unsorted(s, d) == s

RECURSIVE SortByChecked(_, _)
SortByChecked(s, d) ==
    IF s = << >> THEN << >>
    ELSE InsertByKey(s[Len(s)], SortByChecked(SubSeq(s, 1, Len(s) - 1), d), d)

\* Mutant of FastConfirm: the size is not compared.
FastConfirm_NoSize(d, vp, v, isFull) ==
    /\ vp \in DOMAIN d
    /\ ~isFull
    /\ d[vp].mtime = FormatMtime(getmtime(v))

\* The fast-confirm test of the loop: a record exists, fast mode is active and
\* both the stored mtime text and the stored size equal the current ones.
FastConfirm(d, vp, v, isFull) ==
    /\ vp \in DOMAIN d
    /\ ~isFull
    /\ d[vp].mtime = FormatMtime(getmtime(v))
    /\ d[vp].size = getsize(v)

\* The fast-confirm branch: restamp checked, mark exist.
Restamped(d, vp, now) ==
    [d EXCEPT ![vp] = [@ EXCEPT !.checked = now, !.exist = TRUE]]

\* The record the hashing branch writes.
NewRecord(h, v, now) ==
    [ hash    |-> h,
      mtime   |-> FormatMtime(getmtime(v)),
      checked |-> now,
      hashed  |-> now,
      exist   |-> TRUE,
      size    |-> getsize(v) ]

\* data[virt_path] = {...}: write or overwrite the record of vp.
Overwritten(d, vp, rec) ==
    [p \in DOMAIN d \cup {vp} |-> IF p = vp THEN rec ELSE d[p]]

\* Mutants of StripExist: the except branch runs the deletion detection of a
\* completed pass; the except branch forgets to strip the flag.
StripExist_Deleting(d) ==
    [p \in { q \in DOMAIN d : d[q].exist } |-> [d[p] EXCEPT !.exist = FALSE]]

StripExist_Forgotten(d) == d

\* Mutant of StripExist: the except branch drops the records the loop has
\* visited.
StripExist_DroppingVisited(d) == [p \in { q \in DOMAIN d : ~d[q].exist } |-> d[p]]

\* The except branch: delete the exist key of every record that has it.
StripExist(d) == [p \in DOMAIN d |-> [d[p] EXCEPT !.exist = FALSE]]

\* Mutants of DeletedFiles: nothing is ever classified as deleted; the test
\* of the exist key is inverted.
DeletedFiles_None(d) == {}

DeletedFiles_Inverted(d) == { p \in DOMAIN d : d[p].exist }

\* Deletion detection of a pass that was not aborted: the records without
\* the exist key.
DeletedFiles(d) == { p \in DOMAIN d : ~d[p].exist }

\* Mutant of AfterDeletion: the records counted as deleted stay in the dict.
AfterDeletion_Kept(d) == [p \in DOMAIN d |-> [d[p] EXCEPT !.exist = FALSE]]

\* The dict after deletion detection: the deleted records removed, the exist
\* key removed from the others.
AfterDeletion(d) ==
    [p \in DOMAIN d \ DeletedFiles(d) |-> [d[p] EXCEPT !.exist = FALSE]]

EmptyManifest == << >>
NoPrev == [outcome |-> "none", full |-> FALSE]
NoReport == [kind |-> "none"]

\* datetime.now() between two reads: the wall clock has moved on.
Ticks == {1}

\* hash_file: the algorithm is checked when a file is hashed.
hash_file(v, a) == IF a # "murmur128" THEN "ValueError" ELSE hash128(v.content)

\* The variables of sync when no process holds them.
NoProcess ==
    /\ full = FALSE
    /\ data = EmptyManifest
    /\ loaded = EmptyManifest
    /\ all_files = << >>
    /\ idx = 1
    /\ files_found = 0 /\ files_added = 0 /\ files_deleted = 0
    /\ files_existed = 0 /\ files_changed = 0
    /\ aborted = FALSE

(***************************************************************************)
(* The initial state: a configuration, a filesystem, no .fsd file yet      *)
(* (load_fileset_data returns {} for a missing file), no process running.  *)
(***************************************************************************)
ConfiguredRoots(p) == { p[i].real : i \in 1..Len(p) }

Init ==
    /\ algo = "murmur128"
    /\ paths \in Configs
    /\ fs \in [RealFiles -> Versions \cup {Absent}]
    /\ \A rf \in RealFiles : fs[rf] \in VersionsOf(rf) \cup {Absent}
    /\ \A rf \in RealFiles : rf[1] \notin ConfiguredRoots(paths) => fs[rf] = Absent
    /\ disk = [intact |-> TRUE, content |-> EmptyManifest]
    /\ clock = 1
    /\ pc = "idle"
    /\ NoProcess
    /\ outcome = "none"
    /\ prev = NoPrev
    /\ envChanges = 0
    /\ runs = 0
    /\ report = NoReport
    /\ other = EmptyManifest


(***************************************************************************)
(* sync, lines 26-40: load the configuration and the data file, enumerate  *)
(* the candidates.  A truncated data file makes load_fileset_data raise,   *)
(* which ends the process.                                                 *)
(***************************************************************************)
StartSync(isFull) ==
    /\ pc = "idle"
    /\ report = NoReport
    /\ runs < MaxRuns
    /\ disk.intact
    /\ full' = isFull
    /\ data' = disk.content
    /\ loaded' = disk.content
    /\ all_files' \in Enumerate(paths, fs)
    /\ idx' = 1
    /\ files_found' = 0 /\ files_added' = 0 /\ files_deleted' = 0
    /\ files_existed' = 0 /\ files_changed' = 0
    /\ aborted' = FALSE
    /\ pc' = "scanned"
    /\ outcome' = "running"
    /\ prev' = [outcome |-> outcome, full |-> full]
    /\ runs' = runs + 1
    /\ report' = NoReport
    /\ UNCHANGED << algo, paths, fs, disk, clock, envChanges, other >>

\* The process ends (or, with "none", the report of the last run is out of
\* date): its variables are gone.
ProcessEnds(how) ==
    /\ pc' = "idle"
    /\ outcome' = how
    /\ full' = FALSE
    /\ data' = EmptyManifest
    /\ loaded' = EmptyManifest
    /\ all_files' = << >>
    /\ idx' = 1
    /\ files_found' = 0 /\ files_added' = 0 /\ files_deleted' = 0
    /\ files_existed' = 0 /\ files_changed' = 0
    /\ aborted' = FALSE
    /\ report' = NoReport

StartSyncCorrupt ==
    /\ pc = "idle"
    /\ report = NoReport
    /\ runs < MaxRuns
    /\ ~disk.intact
    /\ ProcessEnds("error")
    /\ prev' = NoPrev
    /\ runs' = runs + 1
    /\ UNCHANGED << algo, paths, fs, disk, clock, envChanges, other >>

\* line 46, the first statement of the try block that matters.
SortCandidates ==
    /\ pc = "scanned"
    /\ all_files' = SortByChecked(all_files, data)
    /\ pc' = "loop"
    /\ UNCHANGED << algo, paths, fs, disk, clock, full, data, loaded, idx, counters,
                    aborted, outcome, prev, runs, envChanges, report, other >>

(***************************************************************************)
(* One iteration of the loop, lines 48-81.                                 *)
(***************************************************************************)
InLoop == pc = "loop" /\ idx <= Len(all_files)

\* os.path.getmtime raises (the file is gone): nothing catches an OSError,
\* so it leaves sync and ends the process without a save.
ProcessOSError ==
    /\ InLoop
    /\ fs[all_files[idx].real] = Absent
    /\ ProcessEnds("error")
    /\ UNCHANGED << algo, paths, fs, disk, clock, prev, runs, envChanges, other >>

\* lines 54-79: the dict after the iteration over candidate c, whose file v
\* is there and can be hashed: the record is confirmed, or overwritten.
ProcessedData(d, c, v, isFull, a, now) ==
    IF FastConfirm(d, c.virt, v, isFull)
    THEN Restamped(d, c.virt, now)
    ELSE Overwritten(d, c.virt, NewRecord(hash_file(v, a), v, now))

\* lines 54-60: the record is confirmed without hashing.
ProcessFast ==
    /\ InLoop
    /\ LET c == all_files[idx]
           v == fs[c.real]
       IN  /\ v # Absent
           /\ FastConfirm(data, c.virt, v, full)
           /\ \E t \in Ticks :
                /\ clock' = clock + t
                /\ data' = ProcessedData(data, c, v, full, algo, clock + t)
    /\ files_found' = files_found + 1
    /\ files_existed' = files_existed + 1
    /\ idx' = idx + 1
    /\ UNCHANGED << algo, paths, fs, disk, pc, full, loaded, all_files, files_added,
                    files_deleted, files_changed, aborted, outcome, prev, runs,
                    envChanges, report, other >>

\* Mutant of Classify: a file whose hash differs from the record is counted
\* as added.
Classify_ChangedAsAdded(d, vp, h) ==
    IF vp \in DOMAIN d /\ d[vp].hash = h THEN "existed" ELSE "added"

\* lines 64-70: the class of a hashed candidate.
Classify(d, vp, h) ==
    IF vp \in DOMAIN d
    THEN IF d[vp].hash # h THEN "changed" ELSE "existed"
    ELSE "added"

\* lines 62-79: the file is hashed, classified and its record overwritten.
ProcessHash ==
    /\ InLoop
    /\ LET c == all_files[idx]
           v == fs[c.real]
           class == Classify(data, c.virt, hash_file(v, algo))
       IN  /\ v # Absent
           /\ ~FastConfirm(data, c.virt, v, full)
           /\ hash_file(v, algo) # "ValueError"
           /\ files_changed' = IF class = "changed" THEN files_changed + 1 ELSE files_changed
           /\ files_existed' = IF class = "existed" THEN files_existed + 1 ELSE files_existed
           /\ files_added' = IF class = "added" THEN files_added + 1 ELSE files_added
           /\ \E t \in Ticks :
                /\ clock' = clock + t
                /\ data' = ProcessedData(data, c, v, full, algo, clock + t)
    /\ files_found' = files_found + 1
    /\ idx' = idx + 1
    /\ UNCHANGED << algo, paths, fs, disk, pc, full, loaded, all_files, files_deleted,
                    aborted, outcome, prev, runs, envChanges, report, other >>

\* line 62 with an algorithm hash_file does not know: the ValueError leaves
\* sync and ends the process without a save.
ProcessUnsupported ==
    /\ InLoop
    /\ LET c == all_files[idx]
           v == fs[c.real]
       IN  /\ v # Absent
           /\ ~FastConfirm(data, c.virt, v, full)
           /\ hash_file(v, algo) = "ValueError"
    /\ ProcessEnds("error")
    /\ UNCHANGED << algo, paths, fs, disk, clock, prev, runs, envChanges, other >>

(***************************************************************************)
(* The ways out of the try block, each up to the point where               *)
(* save_fileset_data (misc.py lines 28-30) has opened the data file:       *)
(* lzma.open(filename, "wt") truncates the file in place, the document is  *)
(* written afterwards.                                                     *)
(***************************************************************************)
Truncated == [intact |-> FALSE, content |-> EmptyManifest]

\* lines 89-100: the loop ran to its end, so the pass is not aborted: count
\* and delete the records without the exist key, strip it from the others,
\* open the data file for writing.
Finalize ==
    /\ pc = "loop"
    /\ idx > Len(all_files)
    /\ files_deleted' = Cardinality(DeletedFiles(data))
    /\ data' = AfterDeletion(data)
    /\ disk' = Truncated
    /\ pc' = "writing"
    /\ UNCHANGED << algo, paths, fs, clock, full, loaded, all_files, idx,
                    files_found, files_added, files_existed, files_changed,
                    aborted, outcome, prev, runs, envChanges, report, other >>

\* lines 83-87 and 100: a KeyboardInterrupt raised inside the try block,
\* between two candidates or (stamped) in the fast branch between line 57 and
\* line 58, where checked is already restamped and exist is not yet set.
InterruptInTry ==
    /\ pc = "loop"
    /\ \/ /\ data' = StripExist(data)
          /\ UNCHANGED << clock, files_found, files_existed >>
       \/ /\ InLoop
          /\ fs[all_files[idx].real] # Absent
          /\ FastConfirm(data, all_files[idx].virt, fs[all_files[idx].real], full)
          /\ \E t \in Ticks :
                /\ clock' = clock + t
                /\ data' = StripExist([data EXCEPT ![all_files[idx].virt].checked = clock + t])
          /\ files_found' = files_found + 1
          /\ files_existed' = files_existed + 1
    /\ aborted' = TRUE
    /\ disk' = Truncated
    /\ pc' = "writing"
    /\ UNCHANGED << algo, paths, fs, full, loaded, all_files, idx, files_added,
                    files_deleted, files_changed, outcome, prev, runs, envChanges, report, other >>

\* A KeyboardInterrupt raised outside the try block (during the enumeration
\* or inside save_fileset_data): it reaches the handler of __main__, lines
\* 254-259, which prints a message and exits.
InterruptOutside ==
    /\ pc \in {"scanned", "writing"}
    /\ ProcessEnds("killed")
    /\ UNCHANGED << algo, paths, fs, disk, clock, prev, runs, envChanges, other >>

\* f.write(json.dumps(fsd)), the file is closed, show_status prints the
\* counts and the process ends; the counts it printed stay on the console.
SaveWrite ==
    /\ pc = "writing"
    /\ disk' = [intact |-> TRUE, content |-> data]
    /\ pc' = "idle"
    /\ outcome' = IF aborted THEN "interrupted" ELSE "completed"
    /\ UNCHANGED << algo, paths, fs, clock, full, data, loaded, all_files, idx, counters,
                    aborted, prev, runs, envChanges, report, other >>

(***************************************************************************)
(* The environment: between runs a file of a configured root changes or    *)
(* the operator edits the algo= line of the configuration; during a run a  *)
(* file may disappear after the enumeration, before the loop reaches it.   *)
(***************************************************************************)
FsChange ==
    /\ pc = "idle"
    /\ report = NoReport
    /\ runs < MaxRuns
    /\ envChanges < MaxEnvChanges
    /\ envChanges' = envChanges + 1
    /\ \E rf \in RealFiles, v \in Versions \cup {Absent} :
          /\ rf[1] \in ConfiguredRoots(paths)
          /\ v \in VersionsOf(rf) \cup {Absent}
          /\ v # fs[rf]
          /\ fs' = [fs EXCEPT ![rf] = v]
    /\ ProcessEnds("none")
    /\ UNCHANGED << algo, paths, disk, clock, prev, runs, other >>

EditAlgo ==
    /\ pc = "idle"
    /\ report = NoReport
    /\ runs < MaxRuns
    /\ envChanges < MaxEnvChanges
    /\ envChanges' = envChanges + 1
    /\ \E a \in Algos : a # algo /\ algo' = a
    /\ ProcessEnds("none")
    /\ UNCHANGED << paths, fs, disk, clock, prev, runs, other >>

Vanish ==
    /\ pc = "loop"
    /\ envChanges < MaxEnvChanges
    /\ envChanges' = envChanges + 1
    /\ \E i \in idx..Len(all_files) :
          /\ fs[all_files[i].real] # Absent
          /\ fs' = [fs EXCEPT ![all_files[i].real] = Absent]
    /\ UNCHANGED << algo, paths, disk, clock, pc, process, outcome, prev, runs, report, other >>

(***************************************************************************)
(* status, lines 113-148: the counts of a fresh scan against the loaded    *)
(* data file.  Nothing is written.                                         *)
(***************************************************************************)
\* The walk of status: its counts do not depend on the order in which the
\* directories list their files, so one order stands for all.
SomeWalk(p, f) == CHOOSE cands \in Enumerate(p, f) : TRUE

\* all_files of status: the set of the virtual paths the walk yields.
ScannedVirts(cands) == { cands[i].virt : i \in 1..Len(cands) }

\* added_files: incremented for every file of the walk whose virtual path
\* has no record.
status_added(d, cands) ==
    Cardinality({ i \in 1..Len(cands) : cands[i].virt \notin DOMAIN d })

\* modified_files: incremented for every file of the walk whose virtual path
\* has a record with another mtime text or another size.
status_modified(d, cands, f) ==
    Cardinality({ i \in 1..Len(cands) :
                    /\ cands[i].virt \in DOMAIN d
                    /\ \/ d[cands[i].virt].mtime # FormatMtime(getmtime(f[cands[i].real]))
                       \/ d[cands[i].virt].size # getsize(f[cands[i].real]) })

\* deleted_files = total_files - (len(all_files) - added_files)
status_deleted(d, cands) ==
    Cardinality(DOMAIN d) - (Cardinality(ScannedVirts(cands)) - status_added(d, cands))

\* What status prints, in the shape of every report.
StatusReport(kind, d, cands, f) ==
    [ kind     |-> kind,
      total    |-> Cardinality(DOMAIN d),
      scanned  |-> Cardinality(ScannedVirts(cands)),
      added    |-> status_added(d, cands),
      modified |-> status_modified(d, cands, f),
      deleted  |-> status_deleted(d, cands),
      checked  |-> 0,
      changed  |-> {},
      missing  |-> {},
      aborted  |-> FALSE ]

\* A command that ended with an uncaught exception before printing a result.
ErrorReport == [kind |-> "error"]

\* filesets <file.fsc> status
Status ==
    /\ pc = "idle"
    /\ report = NoReport
    /\ runs < MaxRuns
    /\ \/ /\ disk.intact
          /\ report' = StatusReport("status", disk.content, SomeWalk(paths, fs), fs)
       \/ /\ ~disk.intact
          /\ report' = ErrorReport
    /\ UNCHANGED << algo, paths, fs, disk, clock, pc, process, outcome, prev,
                    envChanges, runs, other >>

(***************************************************************************)
(* check, lines 151-178: re-hash the records with the oldest mtime and     *)
(* compare.  A virtual path is a str; its record is resolved to a real     *)
(* path through the first mapping the str starts with.                     *)
(***************************************************************************)
\* The characters of a path component.
Chars(name) ==
    CASE name = "v"  -> << "v" >>
      [] name = "v2" -> << "v", "2" >>
      [] name = "x"  -> << "x" >>
      [] name = "y"  -> << "y" >>

\* str(Path(...)): the components joined by "/".
RECURSIVE PathStr(_)
PathStr(p) ==
    IF p = << >> THEN << >>
    ELSE IF Len(p) = 1 THEN Chars(p[1])
    ELSE Chars(p[1]) \o << "/" >> \o PathStr(Tail(p))

\* str.startswith
startswith(str, prefix) ==
    Len(prefix) <= Len(str) /\ SubSeq(str, 1, Len(prefix)) = prefix

\* Path.relative_to succeeds when the components of root lead the components
\* of p (it raises ValueError otherwise).
IsRelativeTo(p, root) ==
    Len(root) <= Len(p) /\ SubSeq(p, 1, Len(root)) = root

relative_to(p, root) == SubSeq(p, Len(root) + 1, Len(p))

\* lines 165-169: the real path of a record, through the first mapping in
\* configuration order whose virtual root the str of the virtual path starts
\* with; "none" when no mapping matches, "error" when relative_to raises.
RECURSIVE ResolveFrom(_, _, _)
ResolveFrom(i, vp, p) ==
    IF i > Len(p) THEN [kind |-> "none"]
    ELSE IF startswith(PathStr(vp), PathStr(p[i].virt))
         THEN IF IsRelativeTo(vp, p[i].virt)
              THEN [kind |-> "path", real |-> << p[i].real >> \o relative_to(vp, p[i].virt)]
              ELSE [kind |-> "error"]
         ELSE ResolveFrom(i + 1, vp, p)

\* real_path.exists()
exists(real, f) == real \in RealFiles /\ f[real] # Absent

\* lines 164-176: what the loop of check does with one record.
CheckEntry(vp, rec, p, f, a) ==
    LET r == ResolveFrom(1, vp, p)
    IN  IF r.kind = "error" THEN "abort"
        ELSE IF r.kind = "path" /\ exists(r.real, f)
             THEN IF hash_file(f[r.real], a) = "ValueError" THEN "abort"
                  ELSE IF hash_file(f[r.real], a) # rec.hash THEN "changed"
                  ELSE "match"
             ELSE "missing"

\* sorted(data.items(), key=float(mtime)): the orders of the records that
\* ascend in stored mtime (the order of the dict among equal keys).
CheckOrders(d) ==
    { o \in Orders(DOMAIN d) :
        \A i, j \in 1..Len(o) : i < j => d[o[i]].mtime <= d[o[j]].mtime }

\* files_to_check[:int(len * percentage / 100)]
Selected(o, percentage) == SubSeq(o, 1, (Len(o) * percentage) \div 100)

\* The length of the run of records the loop gets through: up to the first
\* one that raises.
RECURSIVE Survived(_, _, _, _, _)
Survived(sel, d, p, f, a) ==
    IF sel = << >> THEN 0
    ELSE IF CheckEntry(Head(sel), d[Head(sel)], p, f, a) = "abort" THEN 0
    ELSE 1 + Survived(Tail(sel), d, p, f, a)

\* What check prints: the report of status, the number of records to check,
\* then the records it found changed or missing, up to an exception that
\* ends it.
CheckReport(d, cands, sel, p, f, a) ==
    LET n == Survived(sel, d, p, f, a)
        done == { sel[i] : i \in 1..n }
    IN  [ StatusReport("check", d, cands, f) EXCEPT
            !.checked = Len(sel),
            !.changed = { vp \in done : CheckEntry(vp, d[vp], p, f, a) = "changed" },
            !.missing = { vp \in done : CheckEntry(vp, d[vp], p, f, a) = "missing" },
            !.aborted = n < Len(sel) ]

Percentages == {50, 100}

\* filesets <file.fsc> check [percentage]
Check(percentage) ==
    /\ pc = "idle"
    /\ report = NoReport
    /\ runs < MaxRuns
    /\ \/ /\ disk.intact
          /\ \E o \in CheckOrders(disk.content) :
                report' = CheckReport(disk.content, SomeWalk(paths, fs),
                                      Selected(o, percentage), paths, fs, algo)
       \/ /\ ~disk.intact
          /\ report' = ErrorReport
    /\ UNCHANGED << algo, paths, fs, disk, clock, pc, process, outcome, prev,
                    envChanges, runs, other >>

\* The command has printed its report and returns to the shell.
CommandReturns ==
    /\ pc = "idle"
    /\ report # NoReport
    /\ report' = NoReport
    /\ UNCHANGED << algo, paths, fs, disk, clock, pc, process, outcome, prev,
                    envChanges, runs, other >>

Next ==
    \/ \E isFull \in BOOLEAN : StartSync(isFull)
    \/ StartSyncCorrupt
    \/ SortCandidates
    \/ ProcessOSError
    \/ ProcessFast
    \/ ProcessHash
    \/ ProcessUnsupported
    \/ Finalize
    \/ InterruptInTry
    \/ InterruptOutside
    \/ SaveWrite
    \/ FsChange
    \/ EditAlgo
    \/ Vanish
    \/ Status
    \/ \E percentage \in Percentages : Check(percentage)
    \/ CommandReturns

Spec == Init /\ [][Next]_vars

TypeOK ==
    /\ pc \in {"idle", "scanned", "loop", "writing"}
    /\ outcome \in {"none", "running", "completed", "interrupted", "killed", "error"}
    /\ idx \in 1..(Len(all_files) + 1)
    /\ disk.intact \in BOOLEAN



(***************************************************************************)
(* diff, lines 181-209: the set arithmetic over the keys of two data       *)
(* files.                                                                  *)
(***************************************************************************)
only_in_1(data1, data2) == DOMAIN data1 \ DOMAIN data2

\* Mutant of only_in_2: every key of the second file is listed.
only_in_2_AllKeys(data1, data2) == DOMAIN data2

only_in_2(data1, data2) == DOMAIN data2 \ DOMAIN data1

common(data1, data2) == DOMAIN data1 \cap DOMAIN data2

different(data1, data2) ==
    { f \in common(data1, data2) : data1[f].hash # data2[f].hash }

\* What diff prints.
DiffReport(data1, data2) ==
    [ kind      |-> "diff",
      only_in_1 |-> only_in_1(data1, data2),
      only_in_2 |-> only_in_2(data1, data2),
      different |-> different(data1, data2) ]

\* filesets <first.fsd> diff <second.fsd>, with the two files in either
\* order: report.swapped tells which.
Diff(swapped) ==
    /\ pc = "idle"
    /\ report = NoReport
    /\ disk.intact
    /\ report' = [ r \in {"swapped"} \cup DOMAIN DiffReport(disk.content, other) |->
                     IF r = "swapped" THEN swapped
                     ELSE IF swapped THEN DiffReport(other, disk.content)[r]
                     ELSE DiffReport(disk.content, other)[r] ]
    /\ UNCHANGED << algo, paths, fs, disk, clock, pc, process, outcome, prev,
                    envChanges, runs, other >>

\* The records a data file may hold for a virtual path, and the data files
\* diff is given.
DiffRecords ==
    { [NewRecord(hash128(v.content), v, 2) EXCEPT !.exist = FALSE] :
        v \in { [content |-> "hello", mtime |-> 3],
                [content |-> "jello", mtime |-> 4],
                [content |-> "hello", mtime |-> 5] } }

DiffKeys == { <<"v", "x">>, <<"v", "y">>, <<"v2", "x">> }

Manifests == UNION { [K -> DiffRecords] : K \in SUBSET DiffKeys }

(***************************************************************************)
(* The specification of diff: two data files, drawn from the bounded set,  *)
(* and the command applied to them in either order.                        *)
(***************************************************************************)
InitDiff ==
    /\ algo = "murmur128"
    /\ paths = << [real |-> "a", virt |-> <<"v">>], [real |-> "c", virt |-> <<"v2">>] >>
    /\ fs = [rf \in RealFiles |-> Absent]
    /\ disk \in [intact : {TRUE}, content : Manifests]
    /\ other \in Manifests
    /\ clock = 1
    /\ pc = "idle"
    /\ NoProcess
    /\ outcome = "none"
    /\ prev = NoPrev
    /\ envChanges = 0
    /\ runs = 0
    /\ report = NoReport

NextDiff ==
    \/ \E swapped \in BOOLEAN : Diff(swapped)
    \/ CommandReturns

SpecDiff == InitDiff /\ [][NextDiff]_vars


(***************************************************************************)
(* A whole pass of sync as a function of what it reads: the loaded         *)
(* Manifest, the candidate list, the files, the mode and the clock.        *)
(***************************************************************************)
\* lines 48-81: the dict after the loop has processed the first k candidates
\* of the sorted list s, the clock reading t when the loop starts.
RECURSIVE LoopOver(_, _, _, _, _, _)
LoopOver(d, s, k, f, isFull, t) ==
    IF k = 0 THEN d
    ELSE ProcessedData(LoopOver(d, s, k - 1, f, isFull, t), s[k], f[s[k].real],
                       isFull, "murmur128", t + k)

\* lines 46-100 of a pass that is not interrupted: sort, loop, deletion
\* detection; the result is what save_fileset_data writes.
CompletedSync(m, cands, f, isFull, t) ==
    AfterDeletion(LoopOver(m, SortByChecked(cands, m), Len(cands), f, isFull, t))

(***************************************************************************)
(* The specification of resumption: a data file some earlier passes left   *)
(* (a copy of it is kept as the second file), an unchanging filesystem,    *)
(* and passes of one mode: interrupted ones inside the try block, then a   *)
(* completed one.                                                          *)
(***************************************************************************)
ResumeManifests == { m \in Manifests : DOMAIN m \subseteq { <<"v", "x">>, <<"v", "y">> } }

InitResume ==
    /\ algo = "murmur128"
    /\ paths \in Configs
    /\ fs \in [RealFiles -> Versions \cup {Absent}]
    /\ \A rf \in RealFiles : fs[rf] \in VersionsOf(rf) \cup {Absent}
    /\ \A rf \in RealFiles : rf[1] \notin ConfiguredRoots(paths) => fs[rf] = Absent
    /\ disk \in [intact : {TRUE}, content : ResumeManifests]
    /\ other = disk.content
    /\ clock = 2
    /\ pc = "idle"
    /\ NoProcess
    /\ outcome = "none"
    /\ prev = NoPrev
    /\ envChanges = 0
    /\ runs = 0
    /\ report = NoReport

NextResume ==
    \/ \E isFull \in BOOLEAN :
          /\ runs = 0 \/ (outcome = "interrupted" /\ isFull = full)
          /\ StartSync(isFull)
    \/ SortCandidates
    \/ ProcessFast
    \/ ProcessHash
    \/ Finalize
    \/ InterruptInTry
    \/ SaveWrite

SpecResume == InitResume /\ [][NextResume]_vars

(***************************************************************************)
(* Vocabulary of the properties.                                           *)
(***************************************************************************)
\* The virtual paths of the candidate list, and of the candidates the loop
\* has finished.
CandidateVirts == { all_files[i].virt : i \in 1..Len(all_files) }
VisitedVirts == { all_files[i].virt : i \in 1..(idx - 1) }

\* The run has ended with the save of an aborted pass / of a completed pass.
SavedInterrupted == pc = "idle" /\ outcome = "interrupted"
SavedCompleted == pc = "idle" /\ outcome = "completed"

\* C1. Deletion safety: the Manifest saved by an interrupted pass has exactly
\* the keys of the loaded Manifest plus the virtual paths of the candidates
\* processed before the interrupt; no record is deleted (the deleted count is
\* 0), and the records of paths that are no candidates at all are untouched.
C1_DeletionSafety ==
    SavedInterrupted =>
        /\ disk.intact
        /\ DOMAIN disk.content = DOMAIN loaded \cup VisitedVirts
        /\ files_deleted = 0
        /\ \A p \in DOMAIN loaded \ CandidateVirts : disk.content[p] = loaded[p]

\* An interrupted pass that stopped after a strict non-empty prefix of its
\* candidates, with a loaded record whose file is gone.
C1_Witness ==
    /\ SavedInterrupted
    /\ 1 < idx /\ idx <= Len(all_files)
    /\ DOMAIN loaded \ CandidateVirts # {}
    /\ VisitedVirts \ DOMAIN loaded # {}

\* C2. No record of the persisted file carries the transient exist flag, in
\* any state, whichever way the runs before ended.
C2_NoExistPersisted ==
    \A p \in DOMAIN disk.content : ~disk.content[p].exist

\* The file written by an interrupted pass that had marked a record, read
\* back by the next run.
C2_Witness ==
    /\ pc = "loop"
    /\ prev.outcome = "interrupted"
    /\ DOMAIN disk.content # {}
    /\ \E p \in DOMAIN data : data[p].exist

\* C3. After a completed sync the keys of the persisted Manifest are exactly
\* the virtual paths of the candidate list; the loaded records whose path was
\* not enumerated are removed and counted as deleted.
C3_CompletedKeySet ==
    SavedCompleted =>
        /\ disk.intact
        /\ DOMAIN disk.content = CandidateVirts
        /\ files_deleted = Cardinality(DOMAIN loaded \ CandidateVirts)

\* A completed sync that removed a record and kept another.
C3_Witness ==
    /\ SavedCompleted
    /\ files_deleted > 0
    /\ DOMAIN loaded \cap CandidateVirts # {}

\* C4. Fast-mode soundness: a step of the loop hashes the candidate (the
\* record's hashed stamp becomes the current time) iff the virtual path has
\* no record, or full mode is active, or the stored mtime text or size
\* differs from the file's current one; otherwise hash, hashed, mtime and
\* size of the record stay as they were and only checked is restamped.
C4_FastModeSoundness ==
    [][ (InLoop /\ idx' = idx + 1) =>
          LET vp == all_files[idx].virt
              v == fs[all_files[idx].real]
              mustHash == \/ vp \notin DOMAIN data
                          \/ full
                          \/ data[vp].mtime # FormatMtime(getmtime(v))
                          \/ data[vp].size # getsize(v)
          IN  /\ (data'[vp].hashed = clock') <=> mustHash
              /\ data'[vp].checked = clock'
              /\ ~mustHash =>
                    /\ data'[vp].hash = data[vp].hash
                    /\ data'[vp].hashed = data[vp].hashed
                    /\ data'[vp].mtime = data[vp].mtime
                    /\ data'[vp].size = data[vp].size
              /\ \A p \in DOMAIN data \ {vp} : data'[p] = data[p]
      ]_vars

\* A record confirmed without hashing: checked restamped, hashed older.
C4_Witness ==
    /\ pc = "loop"
    /\ \E p \in DOMAIN data : data[p].exist /\ data[p].hashed < data[p].checked


\* Two Manifests with the same keys and the same hash, mtime and size in
\* every record (the checked and hashed stamps may differ).
SameButStamps(m1, m2) ==
    /\ DOMAIN m1 = DOMAIN m2
    /\ \A p \in DOMAIN m1 :
          /\ m1[p].hash = m2[p].hash
          /\ m1[p].mtime = m2[p].mtime
          /\ m1[p].size = m2[p].size

\* This run and the run before it were both completed full syncs, and the
\* environment did not change in between.
SecondFullSync ==
    /\ SavedCompleted
    /\ full
    /\ prev.outcome = "completed"
    /\ prev.full

\* Two candidates of the list share a virtual path and differ in content hash.
ConflictingCandidates ==
    \E i, j \in 1..Len(all_files) :
        /\ all_files[i].virt = all_files[j].virt
        /\ hash128(fs[all_files[i].real].content) # hash128(fs[all_files[j].real].content)

\* C5 as stated. Idempotence for every configuration: the second of two
\* completed full syncs over an unchanged filesystem reports added = 0,
\* changed = 0, deleted = 0 and leaves the Manifest as it was up to stamps.
C5_IdempotenceAnyConfig ==
    SecondFullSync =>
        /\ files_added = 0
        /\ files_changed = 0
        /\ files_deleted = 0
        /\ SameButStamps(disk.content, loaded)

\* C5 as amended. The second of two completed full syncs over an unchanged
\* filesystem reports added = 0 and deleted = 0 and leaves the Manifest as it
\* was up to stamps; it reports changed = 0 unless two candidates that share
\* a virtual path differ in content.
C5_Idempotence ==
    SecondFullSync =>
        /\ files_added = 0
        /\ files_deleted = 0
        /\ SameButStamps(disk.content, loaded)
        /\ ~ConflictingCandidates => files_changed = 0

\* A second full sync over a Manifest with records, with two candidates of
\* one virtual path.
C5_Witness ==
    /\ SecondFullSync
    /\ DOMAIN loaded # {}
    /\ Len(all_files) > Cardinality(CandidateVirts)
    /\ ~ConflictingCandidates

\* C6 as stated. When an interrupted process exits after at least one
\* candidate was processed, the data file is whole and holds, for every
\* candidate already visited, the record the loop computed.
C6_InterruptSaves ==
    [][ (/\ pc \in {"loop", "writing"}
         /\ idx > 1
         /\ pc' = "idle"
         /\ outcome' \in {"killed", "interrupted"})
        => /\ disk'.intact
           /\ \A p \in VisitedVirts :
                 /\ p \in DOMAIN disk'.content
                 /\ disk'.content[p] = [data[p] EXCEPT !.exist = FALSE]
      ]_vars

\* C7 as stated. The persisted file is a complete Manifest in every state.
C7_AtomicSave == disk.intact

\* C8 as stated. With an unsupported algorithm configured, a sync run fails
\* before the loop processes a candidate or modifies a record, and a pass
\* that was not interrupted never reaches the save.
C8_FailsAtResolution ==
    (algo # "murmur128" /\ pc # "idle") =>
        /\ idx = 1
        /\ data = loaded
        /\ ~(pc = "writing" /\ ~aborted)

\* C9 as stated. When the file of the current candidate cannot be read, the
\* pass is not abandoned: the process stays in the loop, or leaves it only
\* for the save.
C9_PerItemError ==
    [][ (InLoop /\ fs[all_files[idx].real] = Absent)
        => pc' \in {"loop", "writing"}
      ]_vars

\* Position of a real root in the configuration.
RootIndex(r) == CHOOSE i \in 1..Len(paths) : paths[i].real = r

\* The candidate of virtual path p whose real root is last in configuration
\* order.
LaterCandidate(p) ==
    CHOOSE i \in 1..Len(all_files) :
        /\ all_files[i].virt = p
        /\ \A j \in 1..Len(all_files) :
              all_files[j].virt = p =>
                  RootIndex(all_files[j].real[1]) <= RootIndex(all_files[i].real[1])

\* The virtual paths that two candidates produce.
CollidingVirts ==
    { p \in CandidateVirts :
        \E i, j \in 1..Len(all_files) :
            i # j /\ all_files[i].virt = p /\ all_files[j].virt = p }

\* C10 as stated. After a completed sync, fast or full, the record of a
\* colliding virtual path holds the hash, mtime and size of the file under
\* the real root that is later in configuration order.
C10_LastWriteWinsAnyMode ==
    SavedCompleted =>
        \A p \in CollidingVirts :
            LET v == fs[all_files[LaterCandidate(p)].real]
            IN  /\ disk.content[p].hash = hash128(v.content)
                /\ disk.content[p].mtime = FormatMtime(getmtime(v))
                /\ disk.content[p].size = getsize(v)

\* C10 as amended. After a completed sync the record of a colliding virtual
\* path holds the mtime and size of the file under the later real root, and
\* its hash whenever that candidate was hashed (hashed = checked), which is
\* always in full mode; a fast sync that confirms the later file against the
\* record the earlier file just wrote keeps the earlier file's hash.
C10_LastWriteWins ==
    SavedCompleted =>
        \A p \in CollidingVirts :
            LET v == fs[all_files[LaterCandidate(p)].real]
                r == disk.content[p]
            IN  /\ r.mtime = FormatMtime(getmtime(v))
                /\ r.size = getsize(v)
                /\ (full \/ r.hashed = r.checked) => r.hash = hash128(v.content)
                /\ full => r.hashed = r.checked

\* A completed sync of two files of different content under one virtual path.
C10_Witness ==
    /\ SavedCompleted
    /\ CollidingVirts # {}
    /\ ConflictingCandidates

(***************************************************************************)
(* Vocabulary of the report properties.                                    *)
(***************************************************************************)
\* The virtual paths a fresh scan of the filesystem yields (the same set
\* whatever the order of the walk).
FreshScan == ScannedVirts(SomeWalk(paths, fs))

\* The stored mtime text or size of the record of p disagrees with a file of
\* the scan that maps to p.
Disagrees(p) ==
    \E rf \in RealFiles, i \in 1..Len(paths) :
        /\ rf[1] = paths[i].real
        /\ fs[rf] # Absent
        /\ paths[i].virt \o << rf[2] >> = p
        /\ \/ disk.content[p].mtime # FormatMtime(getmtime(fs[rf]))
           \/ disk.content[p].size # getsize(fs[rf])

\* C11. Status counts: for every Manifest and scan, status reports as added
\* the number of virtual paths of the scan that have no record, as modified
\* the number of records whose stored mtime or size disagrees with the
\* filesystem, and as deleted total - (scanned - added).
C11_StatusCounts ==
    report.kind = "status" =>
        /\ report.total = Cardinality(DOMAIN disk.content)
        /\ report.added = Cardinality(FreshScan \ DOMAIN disk.content)
        /\ report.modified =
              Cardinality({ p \in DOMAIN disk.content \cap FreshScan : Disagrees(p) })
        /\ report.deleted = report.total - (Cardinality(FreshScan) - report.added)

\* C18. Status deleted count: the deleted count status reports is the number
\* of records whose virtual path is absent from the fresh scan, hence between
\* 0 and the total, also where two real roots yield the same virtual path.
C18_StatusDeleted ==
    report.kind = "status" =>
        /\ report.deleted = Cardinality(DOMAIN disk.content \ FreshScan)
        /\ report.deleted >= 0
        /\ report.deleted <= report.total

\* C12. Check never aborts on an entry: for every Manifest and every list of
\* mappings, each selected record gets exactly one outcome (match, changed,
\* or missing when no file exists or no mapping matches) and check goes on
\* with the next one.
C12_CheckNeverAborts ==
    report.kind = "check" =>
        /\ ~report.aborted
        /\ report.changed \cap report.missing = {}
        /\ report.changed \cup report.missing \subseteq DOMAIN disk.content

\* C19. Sync/check agreement: for every list of mappings, a check at 100
\* percent right after a completed sync, with no filesystem change in
\* between, reports no record as changed and none as missing.
C19_SyncCheckAgreement ==
    (SavedCompleted /\ report.kind = "check" /\ report.checked = report.total) =>
        /\ ~report.aborted
        /\ report.changed = {}
        /\ report.missing = {}

\* C13. Diff symmetry: for every pair of Manifests, the keys diff lists as
\* only in the first file are the keys it lists as only in the second when
\* the files are swapped (and the other way round), the differing set is the
\* same in both orders, and the three sets are pairwise disjoint subsets of
\* the keys of the two files.
C13_DiffSymmetry ==
    report.kind = "diff" =>
        LET A == IF report.swapped THEN other ELSE disk.content
            B == IF report.swapped THEN disk.content ELSE other
        IN  /\ report.only_in_1 = only_in_2(B, A)
            /\ report.only_in_2 = only_in_1(B, A)
            /\ report.different = different(B, A)
            /\ report.only_in_1 \cap report.only_in_2 = {}
            /\ report.only_in_1 \cap report.different = {}
            /\ report.only_in_2 \cap report.different = {}
            /\ (report.only_in_1 \cup report.only_in_2 \cup report.different)
                  \subseteq (DOMAIN A \cup DOMAIN B)

\* diff has compared two files with keys of their own and a common key of
\* different hash.
C13_Witness ==
    /\ report.kind = "diff"
    /\ report.only_in_1 # {}
    /\ report.only_in_2 # {}
    /\ report.different # {}

\* The step hashes the candidate at idx: the loop moves on and the fast test
\* did not confirm the record.
HashesCandidate ==
    /\ InLoop
    /\ pc' = "loop"
    /\ idx' = idx + 1
    /\ fs[all_files[idx].real] # Absent
    /\ ~FastConfirm(data, all_files[idx].virt, fs[all_files[idx].real], full)

\* C14. Classification of a hashed candidate: exactly one counter grows, by
\* one: changed when a record existed with another hash, existed when a
\* record existed with the same hash, added when no record existed; and the
\* record is overwritten with the new hash, mtime and size, checked and
\* hashed both set to now.
C14_Classification ==
    [][ HashesCandidate =>
          LET vp == all_files[idx].virt
              v == fs[all_files[idx].real]
              h == hash128(v.content)
              had == vp \in DOMAIN data
              grown == << files_changed' - files_changed,
                          files_existed' - files_existed,
                          files_added' - files_added >>
          IN  /\ (had /\ data[vp].hash # h) => grown = << 1, 0, 0 >>
              /\ (had /\ data[vp].hash = h) => grown = << 0, 1, 0 >>
              /\ ~had => grown = << 0, 0, 1 >>
              /\ clock' > clock
              /\ data'[vp].hash = h
              /\ data'[vp].mtime = FormatMtime(getmtime(v))
              /\ data'[vp].size = getsize(v)
              /\ data'[vp].checked = clock'
              /\ data'[vp].hashed = clock'
              /\ \A p \in DOMAIN data \ {vp} : data'[p] = data[p]
    ]_vars

\* A completed pass has counted a candidate of each class: added, changed
\* and existed after hashing (a full pass over a file with unchanged bytes).
C14_Witness ==
    /\ SavedCompleted
    /\ full
    /\ files_changed > 0
    /\ files_existed > 0
    /\ files_added > 0

\* The checked stamp the record of a candidate had when the Manifest was
\* loaded; the sentinel when it had none.
LoadedKey(c) == IF c.virt \in DOMAIN loaded THEN loaded[c.virt].checked ELSE Sentinel

\* The place of a candidate in a candidate list.
PlaceIn(s, c) == CHOOSE i \in 1..Len(s) : s[i] = c

\* C15. Processing order: the candidates are processed in ascending order of
\* the checked stamp their record had when the Manifest was loaded, every
\* candidate without a record before every candidate with one, and
\* candidates of equal key in enumeration order.
C15_ProcessingOrder ==
    [][ /\ (pc = "scanned" /\ pc' = "loop") =>
              /\ Len(all_files') = Len(all_files)
              /\ { all_files'[i] : i \in 1..Len(all_files') }
                    = { all_files[i] : i \in 1..Len(all_files) }
              /\ \A i, j \in 1..Len(all_files') :
                    i < j => LoadedKey(all_files'[i]) <= LoadedKey(all_files'[j])
              /\ \A i, j \in 1..Len(all_files') :
                    (all_files'[i].virt \notin DOMAIN loaded
                        /\ all_files'[j].virt \in DOMAIN loaded) => i < j
              /\ \A i, j \in 1..Len(all_files) :
                    (i < j /\ LoadedKey(all_files[i]) = LoadedKey(all_files[j]))
                        => PlaceIn(all_files', all_files[i]) < PlaceIn(all_files', all_files[j])
        /\ (pc = "loop" /\ pc' = "loop") =>
              /\ all_files' = all_files
              /\ loaded' = loaded
              /\ idx' \in {idx, idx + 1}
              /\ \A p \in DOMAIN data : p # all_files[idx].virt => data'[p] = data[p]
    ]_vars

\* The loop has processed the first candidate of a list the sort has
\* reordered: a candidate under the second root without a record leads, the
\* two candidates under the first root follow by the age of their stamps.
C15_Witness ==
    /\ pc = "loop"
    /\ idx = 2
    /\ Len(all_files) = 3
    /\ all_files[1].real[1] = "c"
    /\ all_files[1].virt \notin DOMAIN loaded
    /\ all_files[2].virt \in DOMAIN loaded
    /\ all_files[3].virt \in DOMAIN loaded
    /\ loaded[all_files[2].virt].checked < loaded[all_files[3].virt].checked

\* C17. Count accounting of a completed sync: for every Manifest and every
\* candidate list, also with several candidates under one virtual path,
\* found is the number of candidates and equals added + changed + existed,
\* and the saved Manifest has as many records as the loaded one plus added
\* minus deleted.
C17_CountAccounting ==
    SavedCompleted =>
        /\ files_found = Len(all_files)
        /\ files_found = files_added + files_changed + files_existed
        /\ Cardinality(DOMAIN disk.content)
              = Cardinality(DOMAIN loaded) + files_added - files_deleted

\* A completed pass over candidates that share a virtual path has added a
\* record and deleted one.
C17_Witness ==
    /\ SavedCompleted
    /\ CollidingVirts # {}
    /\ files_added > 0
    /\ files_deleted > 0

\* The candidates' virtual paths that manifest m does not hold with a checked
\* stamp later than the instant T.
StaleAt(T, m) ==
    { p \in CandidateVirts : p \notin DOMAIN m \/ m[p].checked <= T }

\* The instants that tell the loaded records apart: a sequence of runs may
\* have started after any of them.
Instants == {Sentinel} \cup { loaded[p].checked : p \in DOMAIN loaded }

\* A run that an interrupt ends after the loop has processed at least one
\* candidate: the save of the aborted pass finishes, or an interrupt ends the
\* process while the data file is being written.
InterruptedRunEnds ==
    /\ pc = "writing"
    /\ pc' = "idle"
    /\ idx > 1
    /\ aborted \/ outcome' = "killed"

\* C16. Forward progress under interruption: every run that is interrupted
\* after processing at least one candidate leaves, for every instant T before
\* its start, no more and (unless there were none) strictly fewer candidate
\* paths without a checked stamp later than T; so after at most N such runs
\* over N candidates every candidate's path has a record checked after the
\* start of the first run.
C16_ForwardProgress ==
    [][ InterruptedRunEnds =>
          \A T \in Instants :
              /\ StaleAt(T, disk'.content) \subseteq StaleAt(T, loaded)
              /\ StaleAt(T, loaded) # {} => StaleAt(T, disk'.content) # StaleAt(T, loaded)
    ]_vars

\* C20. Resumption equivalence: with an unchanging filesystem and one mode,
\* a completed sync, whether it is the first pass or follows interrupted
\* passes that stopped after any prefix of the candidates, leaves a Manifest
\* with the key set and the hash, mtime and size of every record that a
\* single completed sync from the initial Manifest (the copy kept in the
\* second file) leaves, whatever the order of the walk.
C20_ResumptionEquivalence ==
    SavedCompleted =>
        \A cands \in Enumerate(paths, fs) :
            SameButStamps(disk.content, CompletedSync(other, cands, fs, full, clock))

\* A completed fast pass has followed an interrupted fast pass that had
\* processed some, not all, of the candidates, from an initial Manifest that
\* already held a record.
C20_Witness ==
    /\ SavedCompleted
    /\ ~full
    /\ prev.outcome = "interrupted"
    /\ other # EmptyManifest
    /\ \E p, q \in DOMAIN disk.content :
          /\ disk.content[p].hashed > 2
          /\ disk.content[p].hashed < disk.content[q].checked - Len(all_files)

====
